---- MODULE Spec2Model ----
(***************************************************************************)
(* Model of the email dispatch job of internal/sender/mail.go:             *)
(*   - Service.Send, one dispatch cycle under Service.mu;                  *)
(*   - listMailMessages, the trigger procedure followed by                 *)
(*     SELECT TOP 100 ... WHERE ... ORDER BY TWID ASC and the scan loop;   *)
(*   - Service.ListMessages, which calls listMailMessages without the      *)
(*     mutex;                                                              *)
(*   - the gocron job of run(), which calls Send from a new goroutine on   *)
(*     every tick.                                                         *)
(*                                                                         *)
(* Strings that the code splits are sequences of one-character strings.    *)
(* The two stored procedures are not part of the Go source; their effect   *)
(* on the table is the one the specification describes.  A database or     *)
(* SMTP call that returns an error is taken to have left the table as it   *)
(* was.  The columns that take no part in the order, the addressing or the *)
(* acknowledgment of a mail (contents, comments, senddatetime, Ruleid) are *)
(* left out.                                                               *)
(***************************************************************************)
EXTENDS Integers, Sequences, FiniteSets, TLC

\* ------------------------------------------------------------------ bounds
NumProcs == 2      \* goroutines the scheduler may have inside Send at once
MaxRows == 2       \* rows the generation procedure materializes in a run
MaxCycles == 2     \* invocations of Send by the scheduler in a run
MaxLists == 1      \* invocations of ListMessages in a run
MaxLen == 3        \* length of the address columns drawn for the parser

\* ------------------------------------------------------- program constants
TopN == 100        \* "TOP 100 TWID"

Procs == 1..NumProcs            \* goroutines that run Service.Send
Lister == NumProcs + 1          \* the goroutine that runs Service.ListMessages
Callers == Procs \cup {Lister}   \* callers of listMailMessages
RowIds == 1..MaxRows

VARIABLES
    rows,          \* dbo.tb_getEmailWiseSend: a set of row records
    mu,            \* Service.mu: TRUE while locked
    pc,            \* position of each Send / ListMessages invocation
    rawsMessages,  \* Send's local rawsMessages ([]*Message)
    messages,      \* Send's local messages ([]*mail.Message)
    ci,            \* index of the commit loop of Send (1-based)
    ret,           \* error Send returns: "none" while running, "nil", or the failing step
    cycles,        \* number of invocations of Send the scheduler has started
    lists,         \* number of invocations of ListMessages started
    trace,         \* external calls made by the current invocation of Send, in order
    startEligible, \* TWIDs eligible when the invocation acquired the lock
    handed,        \* per TWID: number of batches handed to DialAndSend containing it
    acked          \* per TWID: number of successful commit calls issued for it

vars == <<rows, mu, pc, rawsMessages, messages, ci, ret, cycles, lists,
          trace, startEligible, handed, acked>>

\* ------------------------------------------------------------ data model
\* Dates are kept relative to the clock: the txtdate of a row is Today while it
\* is the day time.Now() falls in and Earlier once midnight has passed.
Today == "today"
Earlier == "earlier"

\* sql.NullString
NullString(valid, str) == [Valid |-> valid, String |-> str]

\* values of the toaddress column the generation procedure writes
ToAddressValues ==
    { NullString(FALSE, <<>>),
      NullString(TRUE, <<"a", ";", ";", "b">>) }

\* the business key of a generated row: distinct from every TWID
TxnnoOf(id) == MaxRows + id

\* the subjects column of a generated row: a text of its own for every row
SubjectOf(id) == <<"subject", id>>

Min(a, b) == IF a <= b THEN a ELSE b

\* strings.FieldsFunc(s, func(r rune) bool { return r == ';' })
IsSep(r) == r = ";"

RECURSIVE FieldsFrom(_, _, _)
FieldsFrom(s, k, cur) ==
    IF k > Len(s)
    THEN IF cur = <<>> THEN <<>> ELSE <<cur>>
    ELSE IF IsSep(s[k])
         THEN (IF cur = <<>> THEN <<>> ELSE <<cur>>) \o FieldsFrom(s, k + 1, <<>>)
         ELSE FieldsFrom(s, k + 1, Append(cur, s[k]))

\* strings.Split(s, ";"): every field between two delimiters, empty or not
RECURSIVE SplitFrom(_, _, _)
SplitFrom(s, k, cur) ==
    IF k > Len(s) THEN <<cur>>
    ELSE IF IsSep(s[k]) THEN <<cur>> \o SplitFrom(s, k + 1, <<>>)
         ELSE SplitFrom(s, k + 1, Append(cur, s[k]))

Split(s) == SplitFrom(s, 1, <<>>)

FieldsFunc(s) == FieldsFrom(s, 1, <<>>)

\* the filter without the rectype condition
EligibleAnyRectype(r, day) ==
    /\ r.txtdate = day
    /\ r.toaddress.Valid

\* WHERE rectype = 'ADD' AND txtdate = <time.Now()> AND toaddress IS NOT NULL
Eligible(r, day) ==
    /\ r.rectype = "ADD"
    /\ r.txtdate = day
    /\ r.toaddress.Valid

\* ORDER BY TWID ASC (TWID is the identity column: no two rows share one).
\* The rows with TWID in lo..hi, in ascending order, by halving the range.
RECURSIVE OrderRange(_, _, _)
OrderRange(S, lo, hi) ==
    IF S = {} THEN <<>>
    ELSE IF lo = hi THEN <<CHOOSE r \in S : r.TWID = lo>>
    ELSE LET mid == (lo + hi) \div 2
         IN  OrderRange({r \in S : r.TWID <= mid}, lo, mid)
                 \o OrderRange({r \in S : r.TWID > mid}, mid + 1, hi)

OrderByTWID(S) ==
    IF S = {} THEN <<>>
    ELSE LET first == CHOOSE r \in S : \A q \in S : r.TWID <= q.TWID
             last == CHOOSE r \in S : \A q \in S : r.TWID >= q.TWID
         IN  OrderRange(S, first.TWID, last.TWID)

\* a select without the TOP clause
TopMissing(s, n) == s

\* TOP n
Top(s, n) == SubSeq(s, 1, Min(n, Len(s)))

\* the result set of the SELECT of listMailMessages
SelectRows(tbl, day) == Top(OrderByTWID({r \in tbl : Eligible(r, day)}), TopN)

\* rows.Scan into a Message, with the address columns split
Scan(r) ==
    [ID |-> r.TWID,
     TxnNo |-> r.Txnno,
     Time |-> r.txtdate,
     Subject |-> r.subjects,
     Status |-> r.rectype,
     ToAddresses |-> IF r.toaddress.Valid THEN FieldsFunc(r.toaddress.String) ELSE <<>>,
     BCCAddresses |-> IF r.bccaddress.Valid THEN FieldsFunc(r.bccaddress.String) ELSE <<>>]

\* mail.NewMessage() with the To, CC and Subject headers of one raw message
NewMessage(msg) == [To |-> msg.ToAddresses, Cc |-> msg.BCCAddresses, Subject |-> msg.Subject]

\* a row the external system has queued: flagged ADD, dated the day it is
\* materialized, without a bccaddress
NewRow(id, day, to) ==
    [TWID |-> id, Txnno |-> TxnnoOf(id), txtdate |-> day, toaddress |-> to,
     bccaddress |-> NullString(FALSE, <<>>), subjects |-> SubjectOf(id), rectype |-> "ADD"]

\* EXEC dbo.pd_wiseSendEmail: the tables the generation step may leave
\* (any number of new rows, TWID being an ascending identity column)
RECURSIVE pd_wiseSendEmail(_, _)
pd_wiseSendEmail(tbl, day) ==
    {tbl} \cup
    IF Cardinality(tbl) >= MaxRows THEN {}
    ELSE UNION { pd_wiseSendEmail(tbl \cup {NewRow(Cardinality(tbl) + 1, day, to)}, day) :
                    to \in ToAddressValues }

\* EXEC dbo.pd_updategetemailwisesend @txnno: the table after the acknowledgment
pd_updategetemailwisesend(tbl, txnno) ==
    { IF r.Txnno = txnno THEN [r EXCEPT !.rectype = "SEND"] ELSE r : r \in tbl }

EligibleIds(tbl, day) == {r.TWID : r \in {q \in tbl : Eligible(q, day)}}

Call(op, ok, arg) == [op |-> op, ok |-> ok, arg |-> arg]

IdsOf(ms) == [k \in 1..Len(ms) |-> ms[k].ID]

Range(s) == {s[k] : k \in 1..Len(s)}

\* ------------------------------------------------------------------ Init
Init ==
    /\ rows = {}
    /\ mu = FALSE
    /\ pc = [p \in Callers |-> "idle"]
    /\ rawsMessages = [p \in Procs |-> <<>>]
    /\ messages = [p \in Procs |-> <<>>]
    /\ ci = [p \in Procs |-> 0]
    /\ ret = [p \in Procs |-> "none"]
    /\ cycles = 0
    /\ lists = 0
    /\ trace = [p \in Procs |-> <<>>]
    /\ startEligible = [p \in Procs |-> {}]
    /\ handed = [id \in RowIds |-> 0]
    /\ acked = [id \in RowIds |-> 0]

\* --------------------------------------------------------------- actions
\* midnight passes: time.Now().Format("2006-01-02") changes
Tick ==
    /\ {r \in rows : r.txtdate = Today} # {}
    /\ rows' = {[r EXCEPT !.txtdate = Earlier] : r \in rows}
    /\ UNCHANGED <<mu, pc, rawsMessages, messages, ci, ret, cycles, lists,
                   trace, startEligible, handed, acked>>

\* the scheduler fires and a goroutine calls senderSvc.Send(ctx)
Invoke(p) ==
    /\ pc[p] = "idle"
    /\ cycles < MaxCycles
    /\ cycles' = cycles + 1
    /\ pc' = [pc EXCEPT ![p] = "lock"]
    /\ UNCHANGED <<rows, mu, rawsMessages, messages, ci, ret, lists, trace,
                   startEligible, handed, acked>>

\* a Lock that never waits
LockNoWait(p) == TRUE

\* s.mu.Lock(): blocks while another invocation holds the mutex
LockFree(p) == ~mu

Lock(p) ==
    /\ pc[p] = "lock"
    /\ LockFree(p)
    /\ mu' = TRUE
    /\ pc' = [pc EXCEPT ![p] = "trigger"]
    /\ startEligible' = [startEligible EXCEPT ![p] = EligibleIds(rows, Today)]
    /\ UNCHANGED <<rows, rawsMessages, messages, ci, ret, cycles, lists,
                   trace, handed, acked>>

\* a return statement of Send: the value is set, the deferred Unlock is pending;
\* ListMessages hands its result to its caller and is over
Return(p, val) ==
    IF p \in Procs
    THEN /\ pc' = [pc EXCEPT ![p] = "return"]
         /\ ret' = [ret EXCEPT ![p] = val]
    ELSE /\ pc' = [pc EXCEPT ![p] = "idle"]
         /\ UNCHANGED ret

Log(p, c) ==
    IF p \in Procs
    THEN trace' = [trace EXCEPT ![p] = Append(@, c)]
    ELSE UNCHANGED trace

\* db.ExecContext(ctx, "EXEC dbo.pd_wiseSendEmail") succeeds
TriggerOk(p) ==
    /\ pc[p] = "trigger"
    /\ \E tbl \in pd_wiseSendEmail(rows, Today) : rows' = tbl
    /\ Log(p, Call("trigger", TRUE, <<>>))
    /\ pc' = [pc EXCEPT ![p] = "query"]
    /\ UNCHANGED <<mu, rawsMessages, messages, ci, ret, cycles, lists,
                   startEligible, handed, acked>>

\* the error of the trigger call is dropped and the query runs
TriggerErrorIgnored(p) ==
    /\ pc[p] = "trigger"
    /\ Log(p, Call("trigger", FALSE, <<>>))
    /\ pc' = [pc EXCEPT ![p] = "query"]
    /\ UNCHANGED <<rows, mu, rawsMessages, messages, ci, ret, cycles, lists,
                   startEligible, handed, acked>>

\* ... or fails: listMailMessages returns nil, err and Send returns err
TriggerFails(p) ==
    /\ pc[p] = "trigger"
    /\ Log(p, Call("trigger", FALSE, <<>>))
    /\ Return(p, "trigger")
    /\ UNCHANGED <<rows, mu, rawsMessages, messages, ci, cycles, lists,
                   startEligible, handed, acked>>

\* db.QueryContext and the rows.Next/Scan loop succeed
QueryOk(p) ==
    /\ pc[p] = "query"
    /\ LET sel == SelectRows(rows, Today)
           ms == [k \in 1..Len(sel) |-> Scan(sel[k])]
       IN  IF p \in Procs
           THEN /\ rawsMessages' = [rawsMessages EXCEPT ![p] = ms]
                /\ pc' = [pc EXCEPT ![p] = "build"]
                /\ UNCHANGED ret
           ELSE /\ Return(p, "nil")
                /\ UNCHANGED rawsMessages
    /\ Log(p, Call("query", TRUE, <<>>))
    /\ UNCHANGED <<rows, mu, messages, ci, cycles, lists,
                   startEligible, handed, acked>>

\* the messages the scan loop has appended to ms after n iterations
ScanLoop(sel, n) == [k \in 1..n |-> Scan(sel[k])]

\* a failing fetch that hands its caller the messages scanned so far
PartialResult(ms) == ms

\* return nil, fmt.Errorf(...): what listMailMessages hands its caller with an error
FailedResult(ms) == <<>>

\* the numbers of rows the loop can have scanned when a failure of this kind
\* ends the fetch: the query fails before any row, a scan with a row pending,
\* the iteration after any row
ScannedBefore(sel, kind) ==
    IF kind = "query" THEN {0}
    ELSE IF kind = "scan" THEN 0..(Len(sel) - 1)
    ELSE 0..Len(sel)

\* the query, a row scan or the row iteration fails
QueryFails(p) ==
    /\ pc[p] = "query"
    /\ LET sel == SelectRows(rows, Today)
       IN  \E kind \in {"query", "scan", "iterate"} :
              /\ ScannedBefore(sel, kind) # {}
              /\ IF p \in Procs
                 THEN \E res \in {FailedResult(ScanLoop(sel, n)) : n \in ScannedBefore(sel, kind)} :
                         rawsMessages' = [rawsMessages EXCEPT ![p] = res]
                 ELSE UNCHANGED rawsMessages
              /\ Return(p, kind)
    /\ Log(p, Call("query", FALSE, <<>>))
    /\ UNCHANGED <<rows, mu, messages, ci, cycles, lists,
                   startEligible, handed, acked>>

\* the length check is missing and the empty batch goes to the transport
NoMessagesCheckMissing(p) ==
    /\ pc[p] = "build"
    /\ Len(rawsMessages[p]) = 0
    /\ pc' = [pc EXCEPT ![p] = "send"]
    /\ UNCHANGED <<rows, mu, rawsMessages, messages, ci, ret, cycles, lists,
                   trace, startEligible, handed, acked>>

\* if len(rawsMessages) == 0 { return nil }
NoMessages(p) ==
    /\ pc[p] = "build"
    /\ Len(rawsMessages[p]) = 0
    /\ Return(p, "nil")
    /\ UNCHANGED <<rows, mu, rawsMessages, messages, ci, cycles, lists,
                   trace, startEligible, handed, acked>>

\* a loop that puts each new mail in front of the ones built before
BuildPrepends(p) ==
    /\ pc[p] = "build"
    /\ Len(rawsMessages[p]) # 0
    /\ messages' = [messages EXCEPT ![p] =
                       [k \in 1..Len(rawsMessages[p]) |->
                           NewMessage(rawsMessages[p][Len(rawsMessages[p]) + 1 - k])]]
    /\ pc' = [pc EXCEPT ![p] = "send"]
    /\ UNCHANGED <<rows, mu, rawsMessages, ci, ret, cycles, lists,
                   trace, startEligible, handed, acked>>

\* the loop that builds one mail.Message per raw message
Build(p) ==
    /\ pc[p] = "build"
    /\ Len(rawsMessages[p]) # 0
    /\ messages' = [messages EXCEPT ![p] =
                       [k \in 1..Len(rawsMessages[p]) |-> NewMessage(rawsMessages[p][k])]]
    /\ pc' = [pc EXCEPT ![p] = "send"]
    /\ UNCHANGED <<rows, mu, rawsMessages, ci, ret, cycles, lists,
                   trace, startEligible, handed, acked>>

\* the batch is handed to dialer.DialAndSend(messages...)
Hand(p) ==
    handed' = [id \in RowIds |->
                  IF \E k \in 1..Len(messages[p]) : rawsMessages[p][k].ID = id
                  THEN Min(handed[id] + 1, MaxCycles) ELSE handed[id]]

\* dialer.DialAndSend returns nil
DialAndSendOk(p) ==
    /\ pc[p] = "send"
    /\ Hand(p)
    /\ Log(p, Call("send", TRUE, IdsOf(rawsMessages[p])))
    /\ ci' = [ci EXCEPT ![p] = 1]
    /\ pc' = [pc EXCEPT ![p] = "commit"]
    /\ UNCHANGED <<rows, mu, rawsMessages, messages, ret, cycles, lists,
                   startEligible, acked>>

\* the error of DialAndSend is dropped and the commit loop runs
DialAndSendErrorIgnored(p) ==
    /\ pc[p] = "send"
    /\ Hand(p)
    /\ Log(p, Call("send", FALSE, IdsOf(rawsMessages[p])))
    /\ ci' = [ci EXCEPT ![p] = 1]
    /\ pc' = [pc EXCEPT ![p] = "commit"]
    /\ UNCHANGED <<rows, mu, rawsMessages, messages, ret, cycles, lists,
                   startEligible, acked>>

\* the transport call is made again after an error
DialAndSendRetried(p) ==
    /\ pc[p] = "send"
    /\ Len(SelectSeq(trace[p], LAMBDA c : c.op = "send")) < 2
    /\ Hand(p)
    /\ Log(p, Call("send", FALSE, IdsOf(rawsMessages[p])))
    /\ UNCHANGED <<rows, mu, pc, rawsMessages, messages, ci, ret, cycles, lists,
                   startEligible, acked>>

\* dialer.DialAndSend returns an error: return err
DialAndSendFails(p) ==
    /\ pc[p] = "send"
    /\ Hand(p)
    /\ Log(p, Call("send", FALSE, IdsOf(rawsMessages[p])))
    /\ Return(p, "transport")
    /\ UNCHANGED <<rows, mu, rawsMessages, messages, ci, cycles, lists,
                   startEligible, acked>>

\* one iteration of the commit loop whose ExecContext succeeds
CommitOk(p) ==
    /\ pc[p] = "commit"
    /\ ci[p] <= Len(rawsMessages[p])
    /\ LET msg == rawsMessages[p][ci[p]]
       IN  /\ rows' = pd_updategetemailwisesend(rows, msg.TxnNo)
           /\ acked' = [id \in RowIds |-> IF id = msg.ID THEN acked[id] + 1 ELSE acked[id]]
           /\ Log(p, Call("commit", TRUE, <<msg.TxnNo>>))
    /\ ci' = [ci EXCEPT ![p] = @ + 1]
    /\ UNCHANGED <<mu, pc, rawsMessages, messages, ret, cycles, lists,
                   startEligible, handed>>

\* the error of a commit is dropped and the loop goes on
CommitErrorIgnored(p) ==
    /\ pc[p] = "commit"
    /\ ci[p] <= Len(rawsMessages[p])
    /\ Log(p, Call("commit", FALSE, <<rawsMessages[p][ci[p]].TxnNo>>))
    /\ ci' = [ci EXCEPT ![p] = @ + 1]
    /\ UNCHANGED <<rows, mu, pc, rawsMessages, messages, ret, cycles, lists,
                   startEligible, handed, acked>>

\* one iteration of the commit loop whose ExecContext fails: return err
CommitFails(p) ==
    /\ pc[p] = "commit"
    /\ ci[p] <= Len(rawsMessages[p])
    /\ Log(p, Call("commit", FALSE, <<rawsMessages[p][ci[p]].TxnNo>>))
    /\ Return(p, "commit")
    /\ UNCHANGED <<rows, mu, rawsMessages, messages, ci, cycles, lists,
                   startEligible, handed, acked>>

\* the commit loop is exhausted: return nil
Finish(p) ==
    /\ pc[p] = "commit"
    /\ ci[p] > Len(rawsMessages[p])
    /\ Return(p, "nil")
    /\ UNCHANGED <<rows, mu, rawsMessages, messages, ci, cycles, lists,
                   trace, startEligible, handed, acked>>

\* a job that keeps the error Send returned
JobKeeps(err) == err

\* the job of run(), "senderSvc.Send(ctx)": what it retains of the value Send
\* returned once the call is over
JobResult(err) == "none"

\* an Unlock written at the end of Send instead of deferred: error returns keep the mutex
UnlockNotDeferred(p) ==
    /\ p \in Procs
    /\ pc[p] = "return"
    /\ mu' = (ret[p] # "nil")
    /\ pc' = [pc EXCEPT ![p] = "idle"]
    /\ rawsMessages' = [rawsMessages EXCEPT ![p] = <<>>]
    /\ messages' = [messages EXCEPT ![p] = <<>>]
    /\ ci' = [ci EXCEPT ![p] = 0]
    /\ trace' = [trace EXCEPT ![p] = <<>>]
    /\ startEligible' = [startEligible EXCEPT ![p] = {}]
    /\ ret' = [ret EXCEPT ![p] = "none"]
    /\ UNCHANGED <<rows, cycles, lists, handed, acked>>

\* defer s.mu.Unlock() runs, Send's frame is gone and the call in the job of
\* run() is over
Unlock(p) ==
    /\ p \in Procs
    /\ pc[p] = "return"
    /\ mu' = FALSE
    /\ pc' = [pc EXCEPT ![p] = "idle"]
    /\ rawsMessages' = [rawsMessages EXCEPT ![p] = <<>>]
    /\ messages' = [messages EXCEPT ![p] = <<>>]
    /\ ci' = [ci EXCEPT ![p] = 0]
    /\ trace' = [trace EXCEPT ![p] = <<>>]
    /\ startEligible' = [startEligible EXCEPT ![p] = {}]
    /\ ret' = [ret EXCEPT ![p] = JobResult(ret[p])]
    /\ UNCHANGED <<rows, cycles, lists, handed, acked>>

\* a caller invokes Service.ListMessages, which takes no lock
ListMessages ==
    /\ pc[Lister] = "idle"
    /\ lists < MaxLists
    /\ lists' = lists + 1
    /\ pc' = [pc EXCEPT ![Lister] = "trigger"]
    /\ UNCHANGED <<rows, mu, rawsMessages, messages, ci, ret, cycles, trace,
                   startEligible, handed, acked>>

Next ==
    \/ Tick
    \/ ListMessages
    \/ \E p \in Procs : Invoke(p)
    \/ \E p \in Procs : Lock(p)
    \/ \E p \in Callers : TriggerOk(p)
    \/ \E p \in Callers : TriggerFails(p)
    \/ \E p \in Callers : QueryOk(p)
    \/ \E p \in Callers : QueryFails(p)
    \/ \E p \in Procs : NoMessages(p)
    \/ \E p \in Procs : Build(p)
    \/ \E p \in Procs : DialAndSendOk(p)
    \/ \E p \in Procs : DialAndSendFails(p)
    \/ \E p \in Procs : CommitOk(p)
    \/ \E p \in Procs : CommitFails(p)
    \/ \E p \in Procs : Finish(p)
    \/ \E p \in Procs : Unlock(p)

Spec == Init /\ [][Next]_vars

\* the steps of one invocation of Send after it holds the mutex
SendStep(p) ==
    \/ TriggerOk(p) \/ TriggerFails(p)
    \/ QueryOk(p) \/ QueryFails(p)
    \/ NoMessages(p) \/ Build(p)
    \/ DialAndSendOk(p) \/ DialAndSendFails(p)
    \/ CommitOk(p) \/ CommitFails(p) \/ Finish(p)
    \/ Unlock(p)

\* every storage and transport call returns, and a free sync.Mutex is taken by
\* one of the goroutines waiting in Lock
FairSpec == Spec /\ WF_vars(\E p \in Procs : Lock(p) \/ SendStep(p))

\* ------------------------------------------ a scheduler that never stops
\* the scheduler fires again after the invocations that are counted
InvokeAgain(p) ==
    /\ pc[p] = "idle"
    /\ cycles = MaxCycles
    /\ pc' = [pc EXCEPT ![p] = "lock"]
    /\ UNCHANGED <<rows, mu, rawsMessages, messages, ci, ret, cycles, lists, trace,
                   startEligible, handed, acked>>

NextForever ==
    \/ Next
    \/ \E p \in Procs : InvokeAgain(p)

\* the scheduler keeps invoking Send, every storage and transport call
\* returns and a free mutex is taken by a waiting goroutine; a call that is
\* made again and again does not fail every time
LiveSpec ==
    /\ Init
    /\ [][NextForever]_vars
    /\ WF_vars(\E p \in Procs : Invoke(p) \/ InvokeAgain(p) \/ Lock(p) \/ SendStep(p))
    /\ SF_vars(\E p \in Procs : TriggerOk(p))
    /\ SF_vars(\E p \in Procs : QueryOk(p))
    /\ SF_vars(\E p \in Procs : DialAndSendOk(p))
    /\ SF_vars(\E p \in Procs : CommitOk(p))

\* ---------------------------------------------- a backlog beyond the cap
\* ways a stored row can fail the WHERE clause
Defects == {"none", "sent", "null", "old"}

\* a row of the table with one condition of the WHERE clause possibly failing
StoredRow(id, defect) ==
    [TWID |-> id,
     Txnno |-> TxnnoOf(id),
     txtdate |-> IF defect = "old" THEN Earlier ELSE Today,
     toaddress |-> IF defect = "null" THEN NullString(FALSE, <<>>)
                   ELSE NullString(TRUE, <<"a", ";", ";", "b">>),
     bccaddress |-> NullString(FALSE, <<>>),
     subjects |-> SubjectOf(id),
     rectype |-> IF defect = "sent" THEN "SEND" ELSE "ADD"]

\* tables the external system has filled past the cap of the select: two rows
\* more than the cap, with ascending TWIDs, row 2 and row TopN possibly not
\* eligible
BacklogTables ==
    { { StoredRow(id, IF id = 2 THEN d ELSE IF id = TopN THEN e ELSE "none") :
            id \in 1..(TopN + 2) } :
        d \in Defects, e \in {"none", "sent"} }

\* the service with one of these tables in storage and one invocation of
\* Send left to the scheduler
Stored(tables) ==
    /\ rows \in tables
    /\ mu = FALSE
    /\ pc = [p \in Callers |-> "idle"]
    /\ rawsMessages = [p \in Procs |-> <<>>]
    /\ messages = [p \in Procs |-> <<>>]
    /\ ci = [p \in Procs |-> 0]
    /\ ret = [p \in Procs |-> "none"]
    /\ cycles = MaxCycles - 1
    /\ lists = 0
    /\ trace = [p \in Procs |-> <<>>]
    /\ startEligible = [p \in Procs |-> {}]
    /\ handed = [id \in RowIds |-> 0]
    /\ acked = [id \in RowIds |-> 0]

InitBacklog == Stored(BacklogTables)

BacklogSpec == InitBacklog /\ [][Next]_vars

\* ------------------------------------------- address columns of any content
\* the runes of an address column: two letters and the delimiter
Runes == {"a", "b", ";"}

\* the values of a nullable address column: NULL or any string of at most
\* MaxLen runes; the pending row has the same value in both columns or no
\* bccaddress
AddressColumns ==
    {NullString(FALSE, <<>>)} \cup
    {NullString(TRUE, str) : str \in UNION {[1..n -> Runes] : n \in 0..MaxLen}}

\* tables in which every row but the last is acknowledged and the last one
\* is pending, with any such value in its two address columns
AddressTables ==
    { { StoredRow(id, "sent") : id \in 1..(MaxRows - 1) } \cup
      { [StoredRow(MaxRows, "none") EXCEPT !.toaddress = to, !.bccaddress = bcc] } :
        to \in AddressColumns, bcc \in AddressColumns }

InitAddresses ==
    /\ Stored(AddressTables)
    /\ \A r \in rows : r.bccaddress \in {NullString(FALSE, <<>>), r.toaddress}

AddressSpec == InitAddresses /\ [][Next]_vars

TypeOK ==
    /\ \A r \in rows : r.txtdate \in {Today, Earlier}
    /\ mu \in BOOLEAN
    /\ cycles \in 0..MaxCycles
    /\ lists \in 0..MaxLists
    /\ \A r \in rows : r.TWID \in RowIds /\ r.rectype \in {"ADD", "SEND"}
    /\ \A p \in Callers :
          pc[p] \in {"idle", "lock", "trigger", "query", "build", "send", "commit", "return"}

\* ------------------------------------------------ reading the call trace
HasCall(p, op, ok) ==
    \E k \in 1..Len(trace[p]) : trace[p][k].op = op /\ trace[p][k].ok = ok

CommitCalls(p) == SelectSeq(trace[p], LAMBDA c : c.op = "commit")

SendCalls(p) == SelectSeq(trace[p], LAMBDA c : c.op = "send")

InCycle(p) == pc[p] \in {"trigger", "query", "build", "send", "commit", "return"}

\* the message with TWID id was in a batch this invocation handed to a
\* transport call that returned success
SentOkInCycle(p, id) ==
    \E k \in 1..Len(trace[p]) :
        /\ trace[p][k].op = "send" /\ trace[p][k].ok
        /\ id \in Range(trace[p][k].arg)

\* a commit call keyed by the transaction number of the message with TWID id
\* succeeded in this invocation
AckedInCycle(p, id) ==
    \E k \in 1..Len(trace[p]) :
        /\ trace[p][k].op = "commit" /\ trace[p][k].ok
        /\ \E r \in rows : r.TWID = id /\ trace[p][k].arg = <<r.Txnno>>

\* ------------------------------------------------------------------ claims

\* C1: at most one invocation of Send is between its trigger call and its
\* return at any time; while one is there, no other invocation of Send has
\* made a trigger, query, transport or commit call.
C1_SingleFlight ==
    \A p \in Procs : \A q \in Procs :
        (p # q /\ InCycle(p)) => (~InCycle(q) /\ trace[q] = <<>>)

C1_Witness ==
    \E p \in Procs : \E q \in Procs :
        /\ p # q
        /\ pc[p] = "commit" /\ ci[p] = 2
        /\ pc[q] = "lock"

\* C2 (as stated): when Send returns, a message has been acknowledged in the
\* cycle if and only if it was in the batch of a transport call of the cycle
\* that returned success.
C2_AckIffSentOk ==
    \A p \in Procs :
        pc[p] = "return" =>
            \A id \in RowIds : AckedInCycle(p, id) <=> SentOkInCycle(p, id)

\* C2 (amended): a message is acknowledged in a cycle only if it was in the
\* batch of a transport call of that cycle that returned success before the
\* commit; and when Send returns nil after a successful transport call every
\* message of the batch has been acknowledged.
C2_AckOnlyIfSentOk ==
    \A p \in Procs :
        /\ \A k \in 1..Len(trace[p]) :
              (trace[p][k].op = "commit" /\ trace[p][k].ok) =>
                  \E j \in 1..(k - 1) :
                      /\ trace[p][j].op = "send" /\ trace[p][j].ok
                      /\ \E m \in 1..Len(rawsMessages[p]) :
                            /\ trace[p][k].arg = <<rawsMessages[p][m].TxnNo>>
                            /\ rawsMessages[p][m].ID \in Range(trace[p][j].arg)
        /\ (pc[p] = "return" /\ ret[p] = "nil") =>
              \A id \in RowIds : SentOkInCycle(p, id) => AckedInCycle(p, id)

C2_Witness ==
    \E p \in Procs :
        /\ pc[p] = "return" /\ ret[p] = "commit"
        /\ \E id \in RowIds : SentOkInCycle(p, id) /\ AckedInCycle(p, id)
        /\ \E id \in RowIds : SentOkInCycle(p, id) /\ ~AckedInCycle(p, id)

\* C3 (as stated): no message is in the batch handed to the transport in
\* more than one cycle.
C3_NoMessageSentTwice == \A id \in RowIds : handed[id] <= 1

\* C3 (amended): once a commit call for a message has succeeded, the message
\* is never again in a batch handed to the transport; a message is handed to
\* the transport in a further cycle only while no commit for it has succeeded.
C3_NotSentAfterAck ==
    [][\A id \in RowIds : acked[id] > 0 => handed'[id] = handed[id]]_vars

C3_Witness ==
    \E p \in Procs : \E id \in RowIds :
        /\ acked[id] = 1 /\ handed[id] = 1
        /\ \E r \in rows : r.TWID = id /\ r.txtdate = Today
        /\ cycles = 2 /\ pc[p] = "commit" /\ rawsMessages[p] # <<>>
        /\ \A k \in 1..Len(rawsMessages[p]) : handed[rawsMessages[p][k].ID] = 2
        /\ id \notin Range(IdsOf(rawsMessages[p]))

\* C4: if the transport call of a cycle fails, Send returns an error at once
\* and the cycle makes no commit call.
C4_TransportFailureNoCommit ==
    \A p \in Procs :
        HasCall(p, "send", FALSE) =>
            /\ pc[p] = "return"
            /\ ret[p] \notin {"nil", "none"}
            /\ CommitCalls(p) = <<>>
            /\ Len(SendCalls(p)) = 1

C4_Witness ==
    \E p \in Procs :
        /\ pc[p] = "return"
        /\ HasCall(p, "send", FALSE)
        /\ Len(rawsMessages[p]) = MaxRows

\* C5: after a successful transport call the commit calls are keyed by the
\* transaction numbers of the batch in fetch order; only the last one made
\* can have failed, and then Send has returned the error; every commit that
\* succeeded has left its row acknowledged; Send returns nil only after as
\* many commits as the batch has messages.
C5_CommitsInFetchOrder ==
    \A p \in Procs :
        HasCall(p, "send", TRUE) =>
            LET cs == CommitCalls(p)
                batch == rawsMessages[p]
            IN  /\ Len(cs) <= Len(batch)
                /\ \A k \in 1..Len(cs) :
                      /\ cs[k].arg = <<batch[k].TxnNo>>
                      /\ k < Len(cs) => cs[k].ok
                      /\ cs[k].ok =>
                            \A r \in rows : r.Txnno = batch[k].TxnNo => r.rectype = "SEND"
                      /\ ~cs[k].ok => (pc[p] = "return" /\ ret[p] = "commit")
                /\ pc[p] = "return" =>
                      \/ ret[p] = "nil" /\ Len(cs) = Len(batch)
                                        /\ \A k \in 1..Len(cs) : cs[k].ok
                      \/ ret[p] = "commit" /\ Len(cs) >= 1 /\ ~cs[Len(cs)].ok

C5_Witness ==
    \E p \in Procs :
        /\ pc[p] = "return" /\ ret[p] = "commit"
        /\ Len(rawsMessages[p]) = 2
        /\ Len(CommitCalls(p)) = 2
        /\ CommitCalls(p)[1].ok /\ ~CommitCalls(p)[2].ok
        /\ \E r \in rows : r.Txnno = rawsMessages[p][1].TxnNo /\ r.rectype = "SEND"
\* the commit call for the k-th message of the batch succeeded in this cycle
CommittedInCycle(p, k) ==
    \E j \in 1..Len(trace[p]) :
        trace[p][j] = Call("commit", TRUE, <<rawsMessages[p][k].TxnNo>>)

\* Send is returning from a cycle that failed at the transport or at a commit
FailedCycle(p) ==
    /\ pc[p] = "return"
    /\ HasCall(p, "send", FALSE) \/ HasCall(p, "commit", FALSE)

\* TWIDs a fetch made in the current state returns
FetchNow == {r.TWID : r \in Range(SelectRows(rows, Today))}

\* this step is the successful query of a Send invocation q
IsQueryOkStep(q) == trace'[q] = Append(trace[q], Call("query", TRUE, <<>>))

\* C6 (as stated): after a cycle that failed at the transport or at a
\* commit, a fetch returns every message of the batch whose commit did not
\* succeed and none whose commit succeeded.
C6_UncommittedRefetched ==
    \A p \in Procs :
        FailedCycle(p) =>
            \A k \in 1..Len(rawsMessages[p]) :
                rawsMessages[p][k].ID \in FetchNow <=> ~CommittedInCycle(p, k)

\* C6 (amended): after such a cycle every message of the batch whose commit
\* did not succeed is still stored flagged ADD and, as long as the calendar
\* day is still the day of the message, is returned by every successful fetch
\* of a later cycle until a commit for it succeeds; a message whose commit
\* succeeded is flagged SEND and is returned by no later fetch.
C6_UncommittedStayPending ==
    /\ [](\A p \in Procs :
            FailedCycle(p) =>
                \A k \in 1..Len(rawsMessages[p]) :
                    \E r \in rows :
                        /\ r.TWID = rawsMessages[p][k].ID
                        /\ IF CommittedInCycle(p, k)
                           THEN r.rectype = "SEND" /\ r.TWID \notin FetchNow
                           ELSE /\ r.rectype = "ADD"
                                /\ r.txtdate = Today => r.TWID \in FetchNow)
    /\ [][\A q \in Procs :
            IsQueryOkStep(q) =>
                \A r \in rows :
                    /\ (handed[r.TWID] > 0 /\ acked[r.TWID] = 0 /\ r.txtdate = Today)
                          => r.TWID \in Range(IdsOf(rawsMessages'[q]))
                    /\ acked[r.TWID] > 0
                          => r.TWID \notin Range(IdsOf(rawsMessages'[q]))]_vars

C6_Witness ==
    \E p \in Procs :
        /\ FailedCycle(p) /\ ret[p] = "commit"
        /\ Len(rawsMessages[p]) = 2
        /\ CommittedInCycle(p, 1) /\ ~CommittedInCycle(p, 2)
        /\ \A k \in 1..2 : handed[rawsMessages[p][k].ID] = 2

\* C7: over any sequence of cycles at most one successful commit call is
\* made for a message.
C7_AckedAtMostOnce == \A id \in RowIds : acked[id] <= 1

C7_Witness ==
    /\ cycles = 2
    /\ \A p \in Procs : pc[p] = "idle"
    /\ \E id \in RowIds : acked[id] = 1 /\ handed[id] = 2

\* C8: an invocation of Send that finds the mutex held waits in Lock and is
\* never skipped (it leaves Lock only by acquiring the mutex), and whatever
\* way the running cycle ends it eventually acquires the mutex and runs its
\* own cycle up to its return.
C8_BlockedInvocationRuns ==
    /\ [][\A q \in Procs : pc[q] = "lock" => pc'[q] \in {"lock", "trigger"}]_vars
    /\ \A q \in Procs :
          (pc[q] = "lock" /\ mu) ~> (pc[q] = "return" /\ trace[q] # <<>>)

C8_Witness ==
    \E p \in Procs : \E q \in Procs :
        /\ pc[p] = "return" /\ ret[p] \in {"trigger", "query", "transport", "commit"}
        /\ pc[q] = "lock" /\ mu

\* C9: when the fetch succeeds with no rows, the cycle makes no transport
\* call and no commit call, and Send returns nil.
C9_EmptyFetchNoSideEffects ==
    \A p \in Procs :
        (HasCall(p, "query", TRUE) /\ rawsMessages[p] = <<>>) =>
            /\ SendCalls(p) = <<>>
            /\ CommitCalls(p) = <<>>
            /\ pc[p] \in {"build", "return"}
            /\ pc[p] = "return" => ret[p] = "nil"

C9_Witness ==
    \E p \in Procs :
        /\ pc[p] = "return" /\ ret[p] = "nil"
        /\ rawsMessages[p] = <<>>
        /\ HasCall(p, "query", TRUE)
        /\ rows # {}

\* the fetch of this invocation failed at the trigger, the query or a scan
FetchFailed(p) == HasCall(p, "trigger", FALSE) \/ HasCall(p, "query", FALSE)

\* C10 (as stated): when the trigger, the query or a row scan fails, Send
\* returns an error, no transport and no commit call is made, and the set of
\* eligible rows is the one the cycle started with.
C10_FetchFailureNoSideEffect ==
    \A p \in Procs :
        FetchFailed(p) =>
            /\ pc[p] = "return" /\ ret[p] \notin {"nil", "none"}
            /\ SendCalls(p) = <<>> /\ CommitCalls(p) = <<>>
            /\ EligibleIds(rows, Today) = startEligible[p]

\* C10 (amended): when the trigger, the query or a row scan fails, Send
\* returns an error and the cycle makes no transport call and no commit call;
\* a failed trigger is the only call of its cycle; the failing call and the
\* query leave the table as it is, so the only change a failed fetch can have
\* made is the rows a successful trigger step added before the query failed.
C10_FetchFailureNoSendNoCommit ==
    /\ [](\A p \in Procs :
            FetchFailed(p) =>
                /\ pc[p] = "return" /\ ret[p] \notin {"nil", "none"}
                /\ SendCalls(p) = <<>> /\ CommitCalls(p) = <<>>
                /\ HasCall(p, "trigger", FALSE)
                      => trace[p] = <<Call("trigger", FALSE, <<>>)>>
                /\ HasCall(p, "query", FALSE)
                      => trace[p] = <<Call("trigger", TRUE, <<>>), Call("query", FALSE, <<>>)>>)
    /\ [][\A p \in Procs :
            /\ (\E c \in {Call("trigger", FALSE, <<>>), Call("query", FALSE, <<>>),
                          Call("query", TRUE, <<>>)} :
                    trace'[p] = Append(trace[p], c)) => rows' = rows
            /\ trace'[p] = Append(trace[p], Call("trigger", TRUE, <<>>))
                  => rows \subseteq rows']_vars

C10_Witness ==
    \E p \in Procs :
        /\ pc[p] = "return" /\ ret[p] = "scan"
        /\ startEligible[p] # EligibleIds(rows, Today)
        /\ startEligible[p] # {}

\* the error values Send passes on from listMailMessages
FetchErrors == {"trigger", "query", "scan", "iterate"}

\* C11: listMailMessages hands its caller either an error and no message, or
\* no error and one message for every row of the result set of the select (as
\* many as the table holds eligible rows, up to the cap), in the order of the
\* result set; a failure of the trigger, the query, a scan or the iteration
\* never leaves the caller with a part of the rows.
C11_FetchAllOrNothing ==
    /\ [](\A p \in Procs :
            /\ (FetchFailed(p) \/ ret[p] \in FetchErrors) =>
                  /\ rawsMessages[p] = <<>>
                  /\ pc[p] = "return" /\ ret[p] \in FetchErrors
            /\ rawsMessages[p] # <<>> =>
                  /\ HasCall(p, "query", TRUE)
                  /\ ret[p] \notin FetchErrors)
    /\ [][\A q \in Procs :
            IsQueryOkStep(q) =>
                /\ Len(rawsMessages'[q]) = Min(TopN, Cardinality(EligibleIds(rows, Today)))
                /\ \A k \in 1..Len(rawsMessages'[q]) :
                      rawsMessages'[q][k] = Scan(SelectRows(rows, Today)[k])]_vars

C11_Witness ==
    \E p \in Procs :
        /\ pc[p] = "return" /\ ret[p] = "scan"
        /\ Len(SelectRows(rows, Today)) = 2
        /\ rawsMessages[p] = <<>>

C13_OrderPreserved ==
    \A p \in Procs :
        /\ (pc[p] \in {"send", "commit"} \/ SendCalls(p) # <<>>) =>
              /\ Len(messages[p]) = Len(rawsMessages[p])
              /\ Len(messages[p]) >= 1
              /\ \A k \in 1..Len(messages[p]) :
                    /\ messages[p][k].Subject = rawsMessages[p][k].Subject
                    /\ messages[p][k].To = rawsMessages[p][k].ToAddresses
                    /\ messages[p][k].Cc = rawsMessages[p][k].BCCAddresses
              /\ \A k \in 1..(Len(rawsMessages[p]) - 1) :
                    rawsMessages[p][k].ID < rawsMessages[p][k + 1].ID
        /\ \A j \in 1..Len(SendCalls(p)) :
              SendCalls(p)[j].arg = [k \in 1..Len(messages[p]) |-> rawsMessages[p][k].ID]
        /\ \A i \in 1..Len(CommitCalls(p)) :
              /\ i <= Len(rawsMessages[p])
              /\ CommitCalls(p)[i].arg = <<rawsMessages[p][i].TxnNo>>
        /\ (pc[p] = "return" /\ ret[p] = "nil" /\ SendCalls(p) # <<>>) =>
              /\ Len(CommitCalls(p)) = Len(rawsMessages[p])
              /\ \A i \in 1..Len(CommitCalls(p)) : CommitCalls(p)[i].ok

C13_Witness ==
    \E p \in Procs :
        /\ pc[p] = "return" /\ ret[p] = "nil"
        /\ Len(messages[p]) = 2
        /\ messages[p][1].Subject # messages[p][2].Subject
        /\ Len(CommitCalls(p)) = 2

\* C14 (as stated): every mail handed to the transport has at least one To
\* address.
C14_EveryMailHasRecipient ==
    \A p \in Procs :
        SendCalls(p) # <<>> =>
            \A k \in 1..Len(messages[p]) : messages[p][k].To # <<>>

\* the positions of s where a maximal run of runes other than ';' starts
FieldStarts(s) ==
    {i \in 1..Len(s) : s[i] # ";" /\ (i = 1 \/ s[i - 1] = ";")}

\* the position where the run that starts at i ends
FieldEnd(s, i) ==
    CHOOSE j \in i..Len(s) :
        /\ \A m \in i..j : s[m] # ";"
        /\ j = Len(s) \/ s[j + 1] = ";"

\* the maximal non-empty substrings of s between ';' delimiters, in order
MaximalFields(s) ==
    [k \in 1..Cardinality(FieldStarts(s)) |->
        LET i == CHOOSE n \in FieldStarts(s) :
                     Cardinality({m \in FieldStarts(s) : m < n}) = k - 1
        IN  SubSeq(s, i, FieldEnd(s, i))]

\* what parsing an address column is to give
Parsed(col) == IF col.Valid THEN MaximalFields(col.String) ELSE <<>>

\* C15: the address lists of every fetched message are the maximal non-empty
\* substrings between ';' delimiters of the toaddress and bccaddress columns
\* of its row, in their order, or the empty sequence for a NULL column; no
\* element is empty or holds a delimiter; "a@x;b@x;;c@x" gives
\* "a@x", "b@x", "c@x".
C15_ParseMaximalFields ==
    /\ \A p \in Procs : \A k \in 1..Len(rawsMessages[p]) :
          LET m == rawsMessages[p][k]
          IN  /\ \E r \in rows :
                    /\ r.TWID = m.ID
                    /\ m.ToAddresses = Parsed(r.toaddress)
                    /\ m.BCCAddresses = Parsed(r.bccaddress)
              /\ \A l \in {m.ToAddresses, m.BCCAddresses} : \A j \in 1..Len(l) :
                    /\ l[j] # <<>>
                    /\ \A n \in 1..Len(l[j]) : l[j][n] # ";"
    /\ FieldsFunc(<<"a", "@", "x", ";", "b", "@", "x", ";", ";", "c", "@", "x">>)
          = << <<"a", "@", "x">>, <<"b", "@", "x">>, <<"c", "@", "x">> >>

C15_Witness ==
    \E p \in Procs :
        /\ Len(rawsMessages[p]) = 1
        /\ rawsMessages[p][1].ToAddresses = << <<"a">> >>
        /\ rawsMessages[p][1].BCCAddresses = <<>>
        /\ \E r \in rows : /\ r.TWID = rawsMessages[p][1].ID
                             /\ r.toaddress = NullString(TRUE, <<";", ";", "a">>)
                             /\ ~r.bccaddress.Valid

\* C16 (as stated): no step of an invocation of ListMessages is the trigger
\* procedure, a commit or a transport call, and none changes the table or
\* the set of eligible rows.
C16_ListMessagesReadOnly ==
    [][pc'[Lister] # pc[Lister] =>
          /\ ~(pc[Lister] = "trigger" /\ pc'[Lister] = "query")
          /\ rows' = rows
          /\ EligibleIds(rows', Today) = EligibleIds(rows, Today)
          /\ handed' = handed /\ acked' = acked]_vars

\* a call of this invocation of Send has failed
SomeCallFailed(p) == \E k \in 1..Len(trace[p]) : ~trace[p][k].ok

\* C17 (as stated): Send returns a non-nil error exactly when one of its
\* calls failed, and the job of the scheduler holds that value once the call
\* is over.
C17_ErrorReachesScheduler ==
    /\ [](\A p \in Procs :
            pc[p] = "return" => (ret[p] # "nil" <=> SomeCallFailed(p)))
    /\ [][\A p \in Procs :
            (pc[p] = "return" /\ pc'[p] = "idle") => ret'[p] = ret[p]]_vars

\* C17 (amended): Send returns a non-nil error exactly when the trigger, the
\* query, a scan or the iteration, the transport call or a commit call of
\* the cycle failed, the error being the one of the failing call (the last
\* call made), and nil otherwise; the job of the scheduler retains nothing
\* of the value once the call is over.
C17_SendReturnsErrorJobDropsIt ==
    /\ [](\A p \in Procs :
            pc[p] = "return" =>
                LET last == trace[p][Len(trace[p])]
                IN  /\ ret[p] \in {"nil"} \cup FetchErrors \cup {"transport", "commit"}
                    /\ ret[p] # "nil" <=> SomeCallFailed(p)
                    /\ \A k \in 1..(Len(trace[p]) - 1) : trace[p][k].ok
                    /\ ret[p] = "trigger" <=> (last.op = "trigger" /\ ~last.ok)
                    /\ ret[p] \in {"query", "scan", "iterate"} <=> (last.op = "query" /\ ~last.ok)
                    /\ ret[p] = "transport" <=> (last.op = "send" /\ ~last.ok)
                    /\ ret[p] = "commit" <=> (last.op = "commit" /\ ~last.ok))
    /\ [][\A p \in Procs :
            (pc[p] = "return" /\ pc'[p] = "idle") => ret'[p] = "none"]_vars

C17_Witness ==
    \E p \in Procs : \E q \in Procs :
        /\ pc[p] = "idle" /\ ret[p] = "none" /\ cycles = 2
        /\ pc[q] = "return" /\ ret[q] = "iterate"
        /\ \E id \in RowIds : handed[id] = 1 /\ acked[id] = 0

\* the state of the cycle of an invocation of Send that is at position at
\* with the fetched batch b: waiting for the mutex is before the cycle, a
\* return statement ends it, and the length check belongs to the fetch
PhaseOf(at, b) ==
    CASE at \in {"idle", "lock", "return"} -> "IDLE"
      [] at \in {"trigger", "query"} -> "FETCHING"
      [] at = "build" -> IF b = <<>> THEN "FETCHING" ELSE "BUILDING"
      [] at = "send" -> "SENDING"
      [] at = "commit" -> "COMMITTING"

\* the moves of the state machine on success
Forward(from, to) ==
    \/ from = "IDLE" /\ to = "FETCHING"
    \/ from = "FETCHING" /\ to = "BUILDING"
    \/ from = "BUILDING" /\ to = "SENDING"
    \/ from = "SENDING" /\ to = "COMMITTING"

\* C18 (as stated): every step of an invocation of Send stays in its state,
\* moves forward along IDLE, FETCHING, BUILDING, SENDING, COMMITTING, ends
\* the cycle with success from COMMITTING, or ends it with an error.
C18_StateMachine ==
    [][\A p \in Procs :
        LET from == PhaseOf(pc[p], rawsMessages[p])
            to == PhaseOf(pc'[p], rawsMessages'[p])
        IN  \/ from = to
            \/ Forward(from, to)
            \/ /\ from = "COMMITTING" /\ pc'[p] = "return" /\ ret'[p] = "nil"
            \/ /\ from # "IDLE" /\ pc'[p] = "return"
               /\ ret'[p] \notin {"nil", "none"}]_vars

\* C18 (amended): the same, and a cycle whose fetch returned no message ends
\* with success straight from FETCHING; success from COMMITTING comes after
\* one commit per message, an error from BUILDING does not occur, and the
\* cycle leaves IDLE only when it holds the mutex.
C18_StateMachineWithEmptyFetch ==
    [][\A p \in Procs :
        LET from == PhaseOf(pc[p], rawsMessages[p])
            to == PhaseOf(pc'[p], rawsMessages'[p])
        IN  \/ from = to
            \/ Forward(from, to) /\ (from = "IDLE" => mu')
            \/ /\ from = "COMMITTING" /\ pc'[p] = "return" /\ ret'[p] = "nil"
               /\ Len(CommitCalls(p)) = Len(rawsMessages[p])
            \/ /\ from = "FETCHING" /\ pc'[p] = "return" /\ ret'[p] = "nil"
               /\ HasCall(p, "query", TRUE) /\ rawsMessages[p] = <<>>
               /\ trace'[p] = trace[p]
            \/ /\ from \in {"FETCHING", "SENDING", "COMMITTING"} /\ pc'[p] = "return"
               /\ ret'[p] \notin {"nil", "none"}]_vars

C18_Witness ==
    \E p \in Procs : \E q \in Procs :
        /\ pc[p] = "return" /\ ret[p] = "nil" /\ trace[p] = <<Call("trigger", TRUE, <<>>), Call("query", TRUE, <<>>)>>
        /\ p # q /\ PhaseOf(pc[q], rawsMessages[q]) = "IDLE"
        /\ cycles = 2
        /\ \E r \in rows : r.rectype = "SEND"

\* the calls of this invocation of Send to one operation
CallsTo(p, op) == SelectSeq(trace[p], LAMBDA c : c.op = op)

\* C19: an invocation of Send calls the trigger procedure, the select and
\* the transport at most once each and the commit procedure at most once for
\* each message of the batch, whether the calls fail or not; a failed call
\* is the last call of the invocation.
C19_NoRetry ==
    \A p \in Procs :
        /\ Len(CallsTo(p, "trigger")) <= 1
        /\ Len(CallsTo(p, "query")) <= 1
        /\ Len(CallsTo(p, "send")) <= 1
        /\ Len(CallsTo(p, "commit")) <= Len(rawsMessages[p])
        /\ \A i \in 1..Len(CallsTo(p, "commit")) : \A j \in 1..Len(CallsTo(p, "commit")) :
              CallsTo(p, "commit")[i].arg = CallsTo(p, "commit")[j].arg => i = j
        /\ \A k \in 1..Len(trace[p]) : ~trace[p][k].ok => k = Len(trace[p])

C19_Witness ==
    \E p \in Procs :
        /\ pc[p] = "return" /\ ret[p] = "transport"
        /\ Len(trace[p]) = 3
        /\ Len(rawsMessages[p]) = 2
        /\ \A id \in RowIds : handed[id] = 2

\* the stored row with this TWID, if any, is eligible
EligibleNow(id) == id \in EligibleIds(rows, Today)

====
